---- MODULE Spec2Model ----
(***************************************************************************)
(* State-machine model of telegram_media_bot.py: the module-level dict     *)
(* user_state, the extractors (extract_video_formats, youtube_metadata,    *)
(* instagram_metadata, facebook_metadata) and the two chat handlers        *)
(* (handle_message, button_callback).                                      *)
(*                                                                         *)
(* Strings the code only inspects by substring / suffix are sequences of   *)
(* tokens: 'facebook.com' in url is membership of the token, and           *)
(* m.endswith('.mp4') is a test of the last token.  The collaborators      *)
(* (yt_dlp, requests, the Telegram transport) are inputs: their results    *)
(* and failures are chosen with \E from the sets below.                    *)
(***************************************************************************)
EXTENDS Integers, Sequences, FiniteSets, TLC

\* user_state: the module-level dict; last: what the last handled event did;
\* tasks: the button_callback coroutines suspended at an await;
\* gen: how many descriptors line 179 has stored per chat;
\* ledger: per stored descriptor, whether a choice event read it and how many
\* media sends made from it have completed
VARIABLES user_state, last, tasks, gen, ledger

vars == <<user_state, last, tasks, gen, ledger>>

(* ------------------------------ bounds -------------------------------- *)

\* longest rendition list the metadata collaborator reports
MaxFormats == 2
\* longest child list of a carousel / longest scraped image list
MaxItems == 2
\* longest rendition list of the video with many renditions
MaxRenditions == 2
\* button_callback coroutines in flight together
MaxTasks == 2
\* descriptors stored per chat while handlers interleave
MaxStores == 2

Chats == {"c1", "c2"}

RECURSIVE SeqsUpTo(_, _)
SeqsUpTo(S, n) ==
    IF n = 0 THEN {<<>>}
    ELSE LET shorter == SeqsUpTo(S, n - 1)
         IN  shorter \cup {Append(s, x) : s \in {t \in shorter : Len(t) = n - 1}, x \in S}

(* --------------------------- string helpers --------------------------- *)

\* a missing value (None) of a locator field
None == <<>>

\* s.endswith(ext) on a token sequence
EndsWith(s, ext) == Len(s) > 0 /\ s[Len(s)] = ext

\* sub in text, for the marker tokens
Contains(text, sub) == \E i \in 1..Len(text) : text[i] = sub

\* str.lower() on the note tokens used here
Lower(s) == CASE s = "AUDIO" -> "audio"
              [] s = "Audio" -> "audio"
              [] OTHER -> s

\* 'audio' in s, for an already lower-cased note token
HasAudioWord(s) == s \in {"audio"}

(* --------------------------- MediaInfo -------------------------------- *)

MediaInfo(platform, title, formats, items, thumbnail, caption) ==
    [platform |-> platform, title |-> title, formats |-> formats,
     items |-> items, thumbnail |-> thumbnail, caption |-> caption]

\* the value of `info` while no extractor has returned
NoInfo == MediaInfo("None", "", <<>>, <<>>, None, "")

(* ------------------ extract_video_formats (yt_dlp) -------------------- *)

\* round(size / (1024*1024), 1), in tenths of a megabyte; Python rounds the
\* exact quotient half-to-even
MbTenths(size) ==
    LET q == (size * 10) \div 1048576
        r == (size * 10) % 1048576
    IN  IF r > 524288 THEN q + 1
        ELSE IF r < 524288 THEN q
        ELSE IF q % 2 = 0 THEN q ELSE q + 1

\* f"{note}p ({mb}MB)" if mb else f"{note}p": the note and the size segment
\* (absent: <<>>; present: the tenths of a megabyte printed)
FormatLabel(f) ==
    LET size == IF f.filesize # 0 THEN f.filesize ELSE f.filesize_approx
        mb   == IF size # 0 THEN MbTenths(size) ELSE 0
        note == IF f.format_note # "" THEN f.format_note
                ELSE IF f.height # "" THEN f.height ELSE "None"
    IN  [note |-> note, seg |-> IF mb # 0 THEN <<mb>> ELSE <<>>]

\* if f.get("vcodec") and f.get("url")
Usable(f) == f.vcodec # "" /\ f.url # None

RECURSIVE BuildFormats(_)
BuildFormats(fs) ==
    IF fs = <<>> THEN <<>>
    ELSE LET f == Head(fs)
         IN  IF Usable(f)
             THEN <<[label |-> FormatLabel(f), url |-> f.url]>> \o BuildFormats(Tail(fs))
             ELSE BuildFormats(Tail(fs))

AuthMsg == "This video cannot be downloaded without login/cookies."

\* the result of a call: the raised exception ("none": returned) and the value
Returned(info, calls) == [exc |-> "none", info |-> info, calls |-> calls]
Raised(exc, calls) == [exc |-> exc, info |-> NoInfo, calls |-> calls]

extract_video_formats(y) ==
    IF y.raises THEN Raised("ValueError", <<"extract_info">>)
    ELSE Returned(MediaInfo("video", y.title, BuildFormats(y.formats), <<>>,
                            y.thumbnail, ""),
                  <<"extract_info">>)

(* ------------------- results of the collaborators --------------------- *)

\* rendition descriptors yt_dlp reports (a missing key is "" / 0 / None)
Rendition(vcodec, url, filesize, filesize_approx, format_note, height) ==
    [vcodec |-> vcodec, url |-> url, filesize |-> filesize,
     filesize_approx |-> filesize_approx, format_note |-> format_note,
     height |-> height]

Renditions ==
    { Rendition("avc1", <<"cdn/v720", ".mp4">>, 1572864, 0, "", "720"),
      Rendition("none", <<"cdn/a1", ".m4a">>, 0, 0, "AUDIO", ""),
      Rendition("", <<"cdn/x", ".mp4">>, 0, 262144, "", "360") }

YdlFails == [raises |-> TRUE, title |-> "", thumbnail |-> None, formats |-> <<>>]

YdlResults ==
    {YdlFails} \cup
    { [raises |-> FALSE, title |-> "T", thumbnail |-> <<"cdn/thumb", ".jpg">>,
       formats |-> fs] : fs \in SeqsUpTo(Renditions, MaxFormats) }

\* a response body: plain html (with the lookaside images a scrape finds), or
\* a page carrying the window._sharedData block
Body(kind, imgs, typename, is_video, children, display_url, captions) ==
    [kind |-> kind, imgs |-> imgs, typename |-> typename, is_video |-> is_video,
     children |-> children, display_url |-> display_url, captions |-> captions,
     accessibility_caption |-> ""]

Html(imgs) == Body("html", imgs, "", FALSE, <<>>, None, <<>>)

ChildNodes ==
    { [video_url |-> None, display_url |-> <<"ig/photo", ".jpg">>],
      [video_url |-> <<"ig/clip", ".mp4">>, display_url |-> <<"ig/cover", ".jpg">>] }

CaptionEdges == { <<>>, <<"cap">> }

InstagramBodies ==
    { Html(<<>>),
      Body("bad_json", <<>>, "", FALSE, <<>>, None, <<>>),
      Body("missing_key", <<>>, "", FALSE, <<>>, None, <<>>),
      Body("shared_data", <<>>, "GraphVideo", TRUE, <<>>, <<"ig/cover", ".jpg">>, <<>>) }
    \cup { Body("shared_data", <<>>, "GraphSidecar", FALSE, ch, None, cap) :
             ch \in SeqsUpTo(ChildNodes, MaxItems), cap \in CaptionEdges }
    \cup { Body("shared_data", <<>>, "GraphImage", FALSE, <<>>, d, cap) :
             d \in {None, <<"ig/photo", ".jpg">>}, cap \in CaptionEdges }

FacebookBodies ==
    { Html(imgs) : imgs \in SeqsUpTo({<<"lookaside.fbsbx.com/1", ".jpg">>}, MaxItems) }

Response(status, body) == [status |-> status, body |-> body]

HttpFailures == { Response("ConnectionError", Html(<<>>)) }

NoResponse == Response("unused", Html(<<>>))

(* ----------------------------- extractors ----------------------------- *)

\* requests.get(url, headers=HEADERS): the exception it raises ("ok": none);
\* a url with no scheme is refused before any request is sent
RequestsGet(url, h) ==
    IF ~Contains(url, "https://") THEN "MissingSchema" ELSE h.status

youtube_metadata(url, w) ==
    LET r == extract_video_formats(w.ydl)
    IN  [r EXCEPT !.calls = <<"youtube_metadata">> \o @]

\* [edge["node"].get("video_url") or edge["node"].get("display_url") ...]
RECURSIVE SidecarItems(_)
SidecarItems(children) ==
    IF children = <<>> THEN <<>>
    ELSE LET n == Head(children)
         IN  <<IF n.video_url # None THEN n.video_url ELSE n.display_url>>
             \o SidecarItems(Tail(children))

instagram_metadata(url, w) ==
    LET b       == w.http.body
        calls   == <<"instagram_metadata", "requests.get">>
        title   == IF b.accessibility_caption # "" THEN b.accessibility_caption
                   ELSE "Instagram Media"
        caption == IF b.captions # <<>> THEN b.captions[1] ELSE ""
    IN  IF RequestsGet(url, w.http) # "ok" THEN Raised(RequestsGet(url, w.http), calls)
        ELSE IF b.kind = "html" THEN Raised("AttributeError", calls)
        ELSE IF b.kind = "bad_json" THEN Raised("JSONDecodeError", calls)
        ELSE IF b.kind = "missing_key" THEN Raised("KeyError", calls)
        ELSE IF b.typename = "GraphSidecar"
             THEN Returned(MediaInfo("instagram", title, <<>>,
                                     SidecarItems(b.children), None, caption), calls)
        ELSE IF b.is_video
             THEN LET r == extract_video_formats(w.ydl)
                  IN  [r EXCEPT !.calls = calls \o @]
        ELSE Returned(MediaInfo("instagram", title, <<>>, <<b.display_url>>,
                                None, caption), calls)

\* re.findall(r'<img src="(https://lookaside.fbsbx.com/...)"', resp.text)
FindImages(body) == body.imgs

\* url.replace("www.facebook.com", "mbasic.facebook.com")
RECURSIVE Mobile(_)
Mobile(url) ==
    IF Len(url) < 2 THEN url
    ELSE IF url[1] = "www." /\ url[2] = "facebook.com"
         THEN <<"mbasic.", "facebook.com">> \o Mobile(Tail(Tail(url)))
         ELSE <<Head(url)>> \o Mobile(Tail(url))

facebook_metadata(url, w) ==
    LET r     == extract_video_formats(w.ydl)
        calls == <<"facebook_metadata">> \o r.calls
    IN  IF r.exc # "none" THEN [r EXCEPT !.calls = calls]
        ELSE IF r.info.formats # <<>> THEN [r EXCEPT !.calls = calls]
        ELSE IF RequestsGet(Mobile(url), w.http) # "ok"
             THEN Raised(RequestsGet(Mobile(url), w.http), calls \o <<"requests.get">>)
        ELSE Returned(MediaInfo("facebook", "Facebook Photos", <<>>,
                                FindImages(w.http.body), None, ""),
                      calls \o <<"requests.get">>)

(* --------------------------- handle_message --------------------------- *)

\* Route with the final else handing the text to the video extractor
RouteDefaultYoutube(url) ==
    IF Contains(url, "instagram.com") /\ ~Contains(url, "youtu") THEN "instagram"
    ELSE IF Contains(url, "facebook.com") /\ ~Contains(url, "youtu") THEN "facebook"
    ELSE "youtube"

\* the if / elif chain on the message text
Route(url) ==
    IF Contains(url, "youtu") THEN "youtube"
    ELSE IF Contains(url, "instagram.com") THEN "instagram"
    ELSE IF Contains(url, "facebook.com") THEN "facebook"
    ELSE "none"

Resolve(url, w) ==
    CASE Route(url) = "youtube"   -> youtube_metadata(url, w)
      [] Route(url) = "instagram" -> instagram_metadata(url, w)
      [] Route(url) = "facebook"  -> facebook_metadata(url, w)
      [] OTHER                    -> Returned(NoInfo, <<>>)

(* ------------------------ transport operations ------------------------ *)

NoLabel == [note |-> "", seg |-> <<>>]

\* one call of the chat transport, with the arguments the code passes
Op(op, chat) ==
    [op |-> op, chat |-> chat, text |-> "", label |-> NoLabel, media |-> None,
     group |-> <<>>, keyboard |-> <<>>]

InvalidMsg == "Invalid link."
FailedMsg  == "Failed to fetch media."
ExpiredMsg == "Session expired."

reply_text(chat, text) == [Op("reply_text", chat) EXCEPT !.text = text]
send_message(chat, text) == [Op("send_message", chat) EXCEPT !.text = text]
send_photo(chat, m) == [Op("send_photo", chat) EXCEPT !.media = m]
send_video(chat, m) == [Op("send_video", chat) EXCEPT !.media = m]
send_audio(chat, m) == [Op("send_audio", chat) EXCEPT !.media = m]
send_media_group(chat, g) == [Op("send_media_group", chat) EXCEPT !.group = g]
reply_markdown(chat, title, keyboard) ==
    [Op("reply_markdown", chat) EXCEPT !.text = title, !.keyboard = keyboard]
answer(chat) == Op("answer", chat)
edit_message_text(chat, text, label) ==
    [Op("edit_message_text", chat) EXCEPT !.text = text, !.label = label]

\* the calls made when the fail-th transport call raises (0: none does): the
\* calls up to and including it, and the exception that leaves the handler
Attempt(planned, fail) ==
    IF fail \in 1..Len(planned)
    THEN [ops |-> SubSeq(planned, 1, fail), raised |-> "TelegramError"]
    ELSE [ops |-> planned, raised |-> "none"]

(* --------------------------- handle_message --------------------------- *)

\* except ValueError catches ValueError and its subclasses
IsValueError(exc) == exc \in {"ValueError", "JSONDecodeError", "MissingSchema"}

\* str(e)
ExcText(exc) ==
    CASE exc = "ValueError"      -> AuthMsg
      [] exc = "JSONDecodeError" -> "Expecting value: line 1 column 1 (char 0)"
      [] exc = "MissingSchema"   -> "Invalid URL: No scheme supplied"
      [] OTHER                   -> exc

\* InputMedia with the suffix test dropped: every item an InputMediaPhoto
InputMediaAlwaysPhoto(m) == [type |-> "photo", media |-> m]

\* InputMediaVideo(m) if m.endswith('.mp4') else InputMediaPhoto(m)
InputMedia(m) == [type |-> IF EndsWith(m, ".mp4") THEN "video" ELSE "photo", media |-> m]

MediaGroup(items) == [i \in 1..Len(items) |-> InputMedia(items[i])]

\* [InlineKeyboardButton(label, callback_data=label) for label, _ in info.formats]
Buttons(formats) == [i \in 1..Len(formats) |-> formats[i].label]

\* Keyboard with range(0, len(buttons) - 1, 2): an odd last button is lost
KeyboardDropsOdd(buttons) ==
    [r \in 1..(Len(buttons) \div 2) |-> SubSeq(buttons, 2 * r - 1, 2 * r)]

\* [buttons[i:i+2] for i in range(0, len(buttons), 2)]
Keyboard(buttons) ==
    [r \in 1..((Len(buttons) + 1) \div 2) |->
        SubSeq(buttons, 2 * r - 1, IF 2 * r <= Len(buttons) THEN 2 * r ELSE Len(buttons))]

\* DirectPlan without the return at line 176: the descriptor is stored too
DirectPlanStores(chat, info) ==
    IF \E i \in 1..Len(info.items) : info.items[i] = None
    THEN [ops |-> <<>>, store |-> FALSE, pre |-> "AttributeError"]
    ELSE [ops |-> (IF Len(info.items) > 1
                   THEN <<send_media_group(chat, MediaGroup(info.items))>>
                   ELSE IF EndsWith(info.items[1], ".mp4")
                        THEN <<send_video(chat, info.items[1])>>
                        ELSE <<send_photo(chat, info.items[1])>>)
                  \o (IF info.caption # "" THEN <<send_message(chat, info.caption)>>
                      ELSE <<>>),
          store |-> TRUE, pre |-> "none"]

\* the body of handle_message after the try block, for a returned descriptor:
\* the transport calls in order, whether user_state[chat_id] is assigned before
\* them, and the exception the handler's own code raises before any call
DirectPlan(chat, info) ==
    IF \E i \in 1..Len(info.items) : info.items[i] = None
    THEN [ops |-> <<>>, store |-> FALSE, pre |-> "AttributeError"]
    ELSE [ops |-> (IF Len(info.items) > 1
                   THEN <<send_media_group(chat, MediaGroup(info.items))>>
                   ELSE IF EndsWith(info.items[1], ".mp4")
                        THEN <<send_video(chat, info.items[1])>>
                        ELSE <<send_photo(chat, info.items[1])>>)
                  \o (IF info.caption # "" THEN <<send_message(chat, info.caption)>>
                      ELSE <<>>),
          store |-> FALSE, pre |-> "none"]

SelectPlan(chat, info) ==
    [ops |-> <<reply_markdown(chat, info.title, Keyboard(Buttons(info.formats)))>>,
     store |-> TRUE, pre |-> "none"]

\* MessagePlan with the except branches falling through to line 179 after
\* their reply: a failed resolution overwrites the entry
MessagePlanStoresOnFailure(chat, url, r) ==
    IF Route(url) = "none"
    THEN [ops |-> <<reply_text(chat, InvalidMsg)>>, store |-> FALSE, pre |-> "none"]
    ELSE IF IsValueError(r.exc)
    THEN [ops |-> <<reply_text(chat, ExcText(r.exc))>>, store |-> TRUE, pre |-> "none"]
    ELSE IF r.exc # "none"
    THEN [ops |-> <<reply_text(chat, FailedMsg)>>, store |-> TRUE, pre |-> "none"]
    ELSE IF r.info.items # <<>> THEN DirectPlan(chat, r.info)
    ELSE SelectPlan(chat, r.info)

MessagePlan(chat, url, r) ==
    IF Route(url) = "none"
    THEN [ops |-> <<reply_text(chat, InvalidMsg)>>, store |-> FALSE, pre |-> "none"]
    ELSE IF IsValueError(r.exc)
    THEN [ops |-> <<reply_text(chat, ExcText(r.exc))>>, store |-> FALSE, pre |-> "none"]
    ELSE IF r.exc # "none"
    THEN [ops |-> <<reply_text(chat, FailedMsg)>>, store |-> FALSE, pre |-> "none"]
    ELSE IF r.info.items # <<>> THEN DirectPlan(chat, r.info)
    ELSE SelectPlan(chat, r.info)

\* Put as user_state.setdefault(chat_id, info): an unconsumed entry is kept
PutIfAbsent(d, k, v) == [x \in (DOMAIN d) \cup {k} |-> IF x \in DOMAIN d THEN d[x] ELSE v]

\* user_state[chat_id] = info
Put(d, k, v) == [x \in (DOMAIN d) \cup {k} |-> IF x = k THEN v ELSE d[x]]

\* Pop as user_state.clear(): every conversation's entry goes
PopAll(d, k) == [x \in {} |-> d[x]]

\* user_state.pop(chat_id, None)
Pop(d, k) == [x \in (DOMAIN d) \ {k} |-> d[x]]

\* what one handled event did: its input (url or choice), the resolution's
\* outcome (message) or the descriptor read from user_state (choice), whether
\* user_state held an entry for the chat when the handler started, the index
\* of the matching format, the transport calls made in order, and the
\* exception that left the handler ("none": it returned); seen is the list of
\* renditions extract_info reported to a message event that called it
Event(kind, chat, url, choice, r, had, matched, ops, raised) ==
    [kind |-> kind, chat |-> chat, url |-> url, choice |-> choice,
     exc |-> r.exc, info |-> r.info, calls |-> r.calls, seen |-> <<>>,
     had |-> had, matched |-> matched, ops |-> ops, raised |-> raised]

HandleMessage(chat, url, w, fail) ==
    LET r    == Resolve(url, w)
        plan == MessagePlan(chat, url, r)
        att  == Attempt(plan.ops, fail)
    IN  /\ user_state' = IF plan.store THEN Put(user_state, chat, r.info) ELSE user_state
        /\ last' = [Event("message", chat, url, NoLabel, r, chat \in DOMAIN user_state,
                          0, IF plan.pre # "none" THEN <<>> ELSE att.ops,
                          IF plan.pre # "none" THEN plan.pre ELSE att.raised)
                       EXCEPT !.seen = IF Contains(r.calls, "extract_info")
                                       THEN w.ydl.formats ELSE <<>>]

(* --------------------------- button_callback -------------------------- *)

\* FirstMatch without the break at line 201 taking effect on the first hit:
\* the last format carrying the label
LastMatch(formats, choice) ==
    IF \E i \in 1..Len(formats) : formats[i].label = choice
    THEN CHOOSE i \in 1..Len(formats) :
            /\ formats[i].label = choice
            /\ \A j \in (i + 1)..Len(formats) : formats[j].label # choice
    ELSE 0

\* FirstMatch falling back to the first format when no label equals the choice
FirstMatchOrFirst(formats, choice) ==
    IF \E i \in 1..Len(formats) : formats[i].label = choice
    THEN CHOOSE i \in 1..Len(formats) :
            /\ formats[i].label = choice
            /\ \A j \in 1..(i - 1) : formats[j].label # choice
    ELSE IF formats # <<>> THEN 1 ELSE 0

\* for label, media_url in info.formats: if label == choice: ... break
\* the index of the first entry whose label equals the choice (0: none)
FirstMatch(formats, choice) ==
    IF \E i \in 1..Len(formats) : formats[i].label = choice
    THEN CHOOSE i \in 1..Len(formats) :
            /\ formats[i].label = choice
            /\ \A j \in 1..(i - 1) : formats[j].label # choice
    ELSE 0

\* if media_url.endswith('.mp3') or 'audio' in label.lower()
IsAudio(f) == EndsWith(f.url, ".mp3") \/ HasAudioWord(Lower(f.label.note))

\* ChoicePlan with the line-192 test missing its reply
ChoicePlanNoExpiry(chat, choice, state) ==
    IF chat \notin DOMAIN state
    THEN <<answer(chat)>>
    ELSE LET fs == state[chat].formats
             i  == FirstMatch(fs, choice)
         IN  IF i = 0 THEN <<answer(chat)>>
             ELSE <<answer(chat), edit_message_text(chat, "Downloading", choice),
                    IF IsAudio(fs[i]) THEN send_audio(chat, fs[i].url)
                    ELSE send_video(chat, fs[i].url)>>

ChoicePlan(chat, choice, state) ==
    IF chat \notin DOMAIN state
    THEN <<answer(chat), edit_message_text(chat, ExpiredMsg, NoLabel)>>
    ELSE LET fs == state[chat].formats
             i  == FirstMatch(fs, choice)
         IN  IF i = 0 THEN <<answer(chat)>>
             ELSE <<answer(chat), edit_message_text(chat, "Downloading", choice),
                    IF IsAudio(fs[i]) THEN send_audio(chat, fs[i].url)
                    ELSE send_video(chat, fs[i].url)>>

\* ReachesPop with the pop inside the if of the loop: only a match clears
ReachesPopOnMatch(chat, state, att) ==
    /\ chat \in DOMAIN state
    /\ att.raised = "none"
    /\ \E i \in 1..Len(att.ops) : att.ops[i].op \in {"send_audio", "send_video"}

\* whether line 202 is reached: the handler neither returned at line 193 nor
\* was left by an exception
ReachesPop(chat, state, att) == chat \in DOMAIN state /\ att.raised = "none"

ButtonCallback(chat, choice, fail) ==
    LET att == Attempt(ChoicePlan(chat, choice, user_state), fail)
        had == chat \in DOMAIN user_state
    IN  /\ user_state' = IF ReachesPop(chat, user_state, att)
                         THEN Pop(user_state, chat) ELSE user_state
        /\ last' = Event("choice", chat, <<>>, choice,
                         Returned(IF had THEN user_state[chat] ELSE NoInfo, <<>>), had,
                         IF had THEN FirstMatch(user_state[chat].formats, choice) ELSE 0,
                         att.ops, att.raised)

(* ------------------------------ the bot ------------------------------- *)

\* what the users send: c1 every kind of text, c2 a link to one other video
Urls == { <<"https://", "youtu">>,
          <<"https://", "instagram.com">>,
          <<"instagram.com", "/p/1">>,
          <<"https://", "www.", "facebook.com">>,
          <<"https://", "example.org">>,
          <<"hello">> }

OtherUrl == <<"https://", "youtu", "/other">>

Texts(chat) == IF chat = "c1" THEN Urls ELSE {OtherUrl}

\* what yt_dlp reports for the other video
OtherRendition == Rendition("vp9", <<"cdn/w1080", ".webm">>, 0, 31562138, "", "1080")

OtherYdl == [raises |-> FALSE, title |-> "U", thumbnail |-> None,
             formats |-> <<OtherRendition>>]

World(ydl, http) == [ydl |-> ydl, http |-> http]

\* the collaborator results each extractor can read
YoutubeWorlds == { World(y, NoResponse) : y \in YdlResults }

InstagramWorlds ==
    { World(y, h) : y \in YdlResults,
                    h \in HttpFailures \cup {Response("ok", b) : b \in InstagramBodies} }

FacebookWorlds ==
    { World(y, h) : y \in YdlResults,
                    h \in HttpFailures \cup {Response("ok", b) : b \in FacebookBodies} }

AllWorlds(url) ==
    CASE url = OtherUrl           -> { World(OtherYdl, NoResponse) }
      [] Route(url) = "youtube"   -> YoutubeWorlds
      [] Route(url) = "instagram" -> InstagramWorlds
      [] Route(url) = "facebook"  -> FacebookWorlds
      [] OTHER                    -> { World(YdlFails, NoResponse) }

\* one world for each outcome the resolution of url has: worlds that differ
\* only in what the extractor never reads, or drops, are one case
Cases(url) ==
    { CHOOSE w \in AllWorlds(url) : Resolve(url, w) = r :
        r \in { Resolve(url, v) : v \in AllWorlds(url) } }

WorldsOf == [url \in Urls \cup {OtherUrl} |-> Cases(url)]

Worlds(url) == WorldsOf[url]

\* callback_data of a button some prompt of this bot has carried
Choices == { FormatLabel(f) : f \in {x \in Renditions \cup {OtherRendition} : Usable(x)} }

TaskIds == 1..MaxTasks

\* a coroutine of button_callback: where it is suspended, the chat and
\* callback_data of its update, and its locals info (line 191) and the index
\* of the matching format; gen is the number of the descriptor it read
Task(pc, chat, choice, info, at, g) ==
    [pc |-> pc, chat |-> chat, choice |-> choice, info |-> info, at |-> at, gen |-> g]

NoTask == Task("idle", "c1", NoLabel, NoInfo, 0, 0)

Init ==
    /\ user_state = <<>>
    /\ last = Event("start", "c1", <<>>, NoLabel, Returned(NoInfo, <<>>), FALSE, 0,
                    <<>>, "none")
    /\ tasks = [t \in TaskIds |-> NoTask]
    /\ gen = [c \in Chats |-> 0]
    /\ ledger = [c \in Chats |-> [g \in 1..MaxStores |-> [read |-> FALSE, sends |-> 0]]]

\* any one transport call the handler makes can raise (fail = 0: none does)
Message ==
    \E chat \in Chats :
        \E url \in Texts(chat) :
            \E w \in Worlds(url) :
                \E fail \in 0..Len(MessagePlan(chat, url, Resolve(url, w)).ops) :
                    /\ HandleMessage(chat, url, w, fail)
                    /\ UNCHANGED <<tasks, gen, ledger>>

Choice ==
    \E chat \in Chats, choice \in Choices :
        \E fail \in 0..Len(ChoicePlan(chat, choice, user_state)) :
            /\ ButtonCallback(chat, choice, fail)
            /\ UNCHANGED <<tasks, gen, ledger>>

\* main() builds the Application with its defaults: updates are taken from the
\* queue one at a time and each handler runs to its end before the next starts
Next == Message \/ Choice

Spec == Init /\ [][Next]_vars

(* ------------------- one video with many renditions ------------------- *)

\* a video whose renditions share a label, carry an audio file or an audio
\* note, report a small size, or have no locator
LabelUrl == <<"https://", "youtu", "/renditions">>

LabelRenditions ==
    { Rendition("avc1", <<"cdn/v720", ".mp4">>, 1572864, 0, "", "720"),
      Rendition("vp9", <<"cdn/v720b", ".webm">>, 0, 1600000, "720", ""),
      Rendition("none", <<"cdn/a2", ".mp3">>, 0, 0, "medium", ""),
      Rendition("none", <<"cdn/a3", ".m4a">>, 40000, 0, "Audio", ""),
      Rendition("avc1", None, 1572864, 0, "", "480") }

LabelWorlds ==
    { World([raises |-> FALSE, title |-> "T", thumbnail |-> None, formats |-> fs],
            NoResponse) : fs \in SeqsUpTo(LabelRenditions, MaxRenditions) }

LabelChoices == { FormatLabel(f) : f \in {x \in LabelRenditions : Usable(x)} }

LabelMessage ==
    \E w \in LabelWorlds :
        \E fail \in 0..Len(MessagePlan("c1", LabelUrl, Resolve(LabelUrl, w)).ops) :
            /\ HandleMessage("c1", LabelUrl, w, fail)
            /\ UNCHANGED <<tasks, gen, ledger>>

LabelChoice ==
    \E choice \in LabelChoices :
        \E fail \in 0..Len(ChoicePlan("c1", choice, user_state)) :
            /\ ButtonCallback("c1", choice, fail)
            /\ UNCHANGED <<tasks, gen, ledger>>

NextLabels == LabelMessage \/ LabelChoice

SpecLabels == Init /\ [][NextLabels]_vars

(* ------------- handlers interleaving at their await points ------------ *)

\* a link whose video has one rendition, or an audio and a video rendition
AsyncUrl == <<"https://", "youtu", "/watch">>

AsyncWorlds ==
    { World([raises |-> FALSE, title |-> "T", thumbnail |-> None, formats |-> fs],
            NoResponse) :
        fs \in { <<Rendition("avc1", <<"cdn/v720", ".mp4">>, 1572864, 0, "", "720")>>,
                 <<Rendition("none", <<"cdn/a1", ".m4a">>, 0, 0, "AUDIO", ""),
                   Rendition("avc1", <<"cdn/v720", ".mp4">>, 1572864, 0, "", "720")>> } }

AsyncChoices ==
    { FormatLabel(Rendition("avc1", <<"cdn/v720", ".mp4">>, 1572864, 0, "", "720")),
      FormatLabel(Rendition("none", <<"cdn/a1", ".m4a">>, 0, 0, "AUDIO", "")) }

\* handle_message does not yield before line 179 (the extractors block) and
\* touches user_state nowhere else: its store is one step among the task steps
AsyncMessage ==
    \E w \in AsyncWorlds :
        \E fail \in 0..Len(MessagePlan("c1", AsyncUrl, Resolve(AsyncUrl, w)).ops) :
            /\ gen["c1"] < MaxStores
            /\ HandleMessage("c1", AsyncUrl, w, fail)
            /\ gen' = [gen EXCEPT !["c1"] = @ + 1]
            /\ UNCHANGED <<tasks, ledger>>

\* the update reaches button_callback, which runs to `await query.answer()`
CallbackStart(t, chat, choice) ==
    /\ tasks[t].pc = "idle"
    /\ tasks' = [tasks EXCEPT ![t] = Task("answer", chat, choice, NoInfo, 0, 0)]
    /\ UNCHANGED <<user_state, last, gen, ledger>>

\* query.answer() is done (ok) or raised: lines 189-196, to the next await.
\* No entry: the 'Session expired.' edit and return.  No matching label: the
\* loop ends without an await and line 202 pops.  A match: the coroutine
\* suspends in edit_message_text
AfterAnswer(t, ok) ==
    LET c == tasks[t].chat
        i == FirstMatch(user_state[c].formats, tasks[t].choice)
    IN  /\ tasks[t].pc = "answer"
        /\ UNCHANGED <<last, gen>>
        /\ IF ~ok \/ c \notin DOMAIN user_state
           THEN /\ tasks' = [tasks EXCEPT ![t] = NoTask]
                /\ UNCHANGED <<user_state, ledger>>
           ELSE /\ ledger' = [ledger EXCEPT ![c][gen[c]].read = TRUE]
                /\ IF i = 0
                   THEN /\ user_state' = Pop(user_state, c)
                        /\ tasks' = [tasks EXCEPT ![t] = NoTask]
                   ELSE /\ user_state' = user_state
                        /\ tasks' = [tasks EXCEPT ![t] =
                               Task("edit", c, tasks[t].choice, user_state[c], i, gen[c])]

\* edit_message_text is done (ok) or raised: lines 197-200, the coroutine
\* suspends in send_audio / send_video with the locator of its own info
AfterEdit(t, ok) ==
    /\ tasks[t].pc = "edit"
    /\ tasks' = [tasks EXCEPT ![t] = IF ok THEN [@ EXCEPT !.pc = "send"] ELSE NoTask]
    /\ UNCHANGED <<user_state, last, gen, ledger>>

\* the send is done (ok) or raised: break, then line 202
AfterSend(t, ok) ==
    LET c == tasks[t].chat
    IN  /\ tasks[t].pc = "send"
        /\ tasks' = [tasks EXCEPT ![t] = NoTask]
        /\ UNCHANGED <<last, gen>>
        /\ IF ok
           THEN /\ ledger' = [ledger EXCEPT ![c][tasks[t].gen].sends = @ + 1]
                /\ user_state' = Pop(user_state, c)
           ELSE UNCHANGED <<user_state, ledger>>

Start == \E t \in TaskIds, choice \in AsyncChoices : CallbackStart(t, "c1", choice)

Answered == \E t \in TaskIds, ok \in BOOLEAN : AfterAnswer(t, ok)

Edited == \E t \in TaskIds, ok \in BOOLEAN : AfterEdit(t, ok)

Sent == \E t \in TaskIds, ok \in BOOLEAN : AfterSend(t, ok)

\* a transport that starts the handler of an update while handlers of earlier
\* updates are suspended
NextAsync == AsyncMessage \/ Start \/ Answered \/ Edited \/ Sent

SpecAsync == Init /\ [][NextAsync]_vars

(* ============================ properties ============================== *)

IsSend(op) == op.op \in {"send_audio", "send_video", "send_photo", "send_media_group"}

Sends(ops) == SelectSeq(ops, IsSend)

RECURSIVE FlattenRows(_)
FlattenRows(rows) == IF rows = <<>> THEN <<>> ELSE Head(rows) \o FlattenRows(Tail(rows))

Labels(formats) == [i \in 1..Len(formats) |-> formats[i].label]

NoLabelMatches(info, choice) ==
    \A i \in 1..Len(info.formats) : info.formats[i].label # choice

ExpiredOps(chat) == <<answer(chat), edit_message_text(chat, ExpiredMsg, NoLabel)>>

\* an extractor returned a descriptor to handle_message
ExtractorReturned == last.kind = "message" /\ last.calls # <<>> /\ last.exc = "none"

\* C1: every descriptor an extractor returns to handle_message is in exactly
\* one mode: formats non-empty and items empty, or items non-empty and
\* formats empty; never both empty and never both non-empty.
C1_ExactlyOneMode ==
    ExtractorReturned => ((last.info.formats # <<>>) <=> (last.info.items = <<>>))

\* C2: whenever button_callback has returned from a choice event of a
\* conversation for which user_state held an entry, user_state holds no entry
\* for that conversation, whether or not a format label matched the choice.
C2_EntryClearedAfterChoice ==
    (last.kind = "choice" /\ last.had /\ last.raised = "none")
        => last.chat \notin DOMAIN user_state

C2_Witness ==
    /\ last.kind = "choice" /\ last.had /\ last.raised = "none"
    /\ ~NoLabelMatches(last.info, last.choice)
    /\ last.chat \notin DOMAIN user_state

\* C3: a choice event of a conversation with no entry in user_state leaves
\* user_state unchanged, makes no send call, raises nothing of its own (only a
\* failing transport call can end it), and, the transport performing its
\* calls, ends with the 'Session expired.' text as its last edit.
C3_StaleChoiceExpires ==
    [][ (last'.kind = "choice" /\ last'.chat \notin DOMAIN user_state) =>
            /\ user_state' = user_state
            /\ Sends(last'.ops) = <<>>
            /\ last'.raised \in {"none", "TelegramError"}
            /\ last'.raised = "none" => last'.ops = ExpiredOps(last'.chat) ]_vars

C3_Witness ==
    /\ last.kind = "choice" /\ ~last.had /\ last.raised = "none"
    /\ last.ops = ExpiredOps(last.chat)
    /\ user_state # <<>>

\* C4: a choice event whose label equals no label of the stored descriptor's
\* formats makes no send call and no 'Downloading' edit, and once the handler
\* has returned the conversation's entry is cleared.
C4_NoMatchSendsNothing ==
    (last.kind = "choice" /\ last.had /\ NoLabelMatches(last.info, last.choice)) =>
        /\ \A i \in 1..Len(last.ops) : last.ops[i].op = "answer"
        /\ last.raised = "none" => last.chat \notin DOMAIN user_state

C4_Witness ==
    /\ last.kind = "choice" /\ last.had /\ last.raised = "none"
    /\ last.info.formats # <<>>
    /\ NoLabelMatches(last.info, last.choice)
    /\ last.chat \notin DOMAIN user_state

\* a resolution returned a descriptor with n >= 1 formats (and no items)
ResolvedSelectable ==
    /\ last.kind = "message" /\ last.exc = "none" /\ last.calls # <<>>
    /\ last.info.items = <<>> /\ last.info.formats # <<>>

\* a choice of one of the stored labels has been handled to its end
Picked ==
    /\ last.kind = "choice" /\ last.had /\ last.raised = "none"
    /\ ~NoLabelMatches(last.info, last.choice)

C5_Prompt ==
    ResolvedSelectable =>
        /\ last.chat \in DOMAIN user_state
        /\ user_state[last.chat] = last.info
        /\ last.raised = "none" =>
              /\ Len(last.ops) = 1
              /\ last.ops[1].op = "reply_markdown"
              /\ FlattenRows(last.ops[1].keyboard) = Labels(last.info.formats)

C5_Pick ==
    Picked =>
        /\ Len(Sends(last.ops)) = 1
        /\ Sends(last.ops)[1].op \in {"send_audio", "send_video"}
        /\ Sends(last.ops)[1].chat = last.chat
        /\ \E i \in 1..Len(last.info.formats) :
              /\ last.info.formats[i].label = last.choice
              /\ last.info.formats[i].url = Sends(last.ops)[1].media
        /\ last.chat \notin DOMAIN user_state

C5_SecondPress ==
    (Picked /\ last'.kind = "choice" /\ last'.chat = last.chat) =>
        /\ Sends(last'.ops) = <<>>
        /\ last'.raised = "none" => last'.ops = ExpiredOps(last'.chat)

\* C5: a resolution returning n >= 1 formats stores the descriptor under the
\* conversation and prompts with one button per format in format order; a
\* pick of one of those labels sends exactly one media message, for that
\* label's locator, and clears the entry; a second press right after it gets
\* 'Session expired.'.
C5_SelectableFlow == [](C5_Prompt /\ C5_Pick) /\ [][C5_SecondPress]_vars

C5_Witness ==
    /\ Picked
    /\ Len(last.info.formats) >= 2
    /\ last.choice = last.info.formats[2].label
    /\ last.choice # last.info.formats[1].label
    /\ Sends(last.ops)[1].media = last.info.formats[2].url

NoMarker(url) ==
    /\ ~Contains(url, "youtu")
    /\ ~Contains(url, "instagram.com")
    /\ ~Contains(url, "facebook.com")

FacebookFoundNothing ==
    /\ last.kind = "message" /\ last.exc = "none"
    /\ last.calls = <<"facebook_metadata", "extract_info", "requests.get">>
    /\ last.info.formats = <<>> /\ last.info.items = <<>>

\* C7: for a facebook.com link where the format extractor yields no rendition
\* and the mirror page no image, the user gets 'Failed to fetch media.', no
\* choice prompt is issued and no entry is stored for the conversation.
C7_FacebookNothingFails ==
    FacebookFoundNothing =>
        /\ last.ops = <<reply_text(last.chat, FailedMsg)>>
        /\ last.chat \in DOMAIN user_state => user_state[last.chat] # last.info

\* C8: every value held in user_state is a selectable descriptor: formats
\* non-empty and items empty.
C8_StoredIsSelectable ==
    \A c \in DOMAIN user_state :
        user_state[c].formats # <<>> /\ user_state[c].items = <<>>

\* a resolution failed and handle_message replied
FailureReplied ==
    /\ last.kind = "message" /\ last.exc # "none" /\ last.raised = "none"

\* C9: the login/cookies message is shown exactly when the yt_dlp query
\* fails; every other extraction failure is shown as 'Failed to fetch
\* media.', never as the login/cookies message or the error's own text.
C9_ErrorClassification ==
    FailureReplied =>
        /\ Len(last.ops) = 1
        /\ last.ops[1].op = "reply_text"
        /\ last.ops[1].text =
              IF last.calls[Len(last.calls)] = "extract_info"
              THEN AuthMsg ELSE FailedMsg

\* C10: no handler ends with an exception leaving it, and a choice event
\* for a stored entry leaves no entry behind even when a send fails.
C10_FailuresContained ==
    /\ last.raised = "none"
    /\ (last.kind = "choice" /\ last.had) => last.chat \notin DOMAIN user_state

\* the entry of conversation c (NoInfo: none) in a value of user_state
Entry(state, c) == IF c \in DOMAIN state THEN state[c] ELSE NoInfo

Locators(info) == { info.formats[i].url : i \in 1..Len(info.formats) }

C11_OthersUntouched ==
    \A b \in Chats \ {last'.chat} : Entry(user_state', b) = Entry(user_state, b)

C11_OwnEntryOnly ==
    /\ \A i \in 1..Len(last'.ops) : last'.ops[i].chat = last'.chat
    /\ last'.kind = "choice" =>
          /\ last'.info = Entry(user_state, last'.chat)
          /\ \A i \in 1..Len(Sends(last'.ops)) :
                Sends(last'.ops)[i].media \in Locators(Entry(user_state, last'.chat))
    /\ last'.kind = "message" =>
          \/ /\ last'.chat \in DOMAIN user_state'
             /\ user_state'[last'.chat] = last'.info
          \/ Entry(user_state', last'.chat) = Entry(user_state, last'.chat)

\* C11: in every order of message and choice events of different
\* conversations, an event of conversation A leaves every other
\* conversation's entry of user_state as it was, reads and removes only A's
\* entry, stores only the descriptor resolved for A's text, and sends to A
\* only locators of A's entry.
C11_Isolation == [][C11_OthersUntouched /\ C11_OwnEntryOnly]_vars

C11_Witness ==
    /\ last.kind = "choice" /\ last.chat = "c1" /\ last.had /\ last.raised = "none"
    /\ Len(Sends(last.ops)) = 1
    /\ "c1" \notin DOMAIN user_state
    /\ "c2" \in DOMAIN user_state
    /\ user_state["c2"] # last.info

C12_LaterWins ==
    (last'.kind = "message" /\ last'.exc = "none" /\ last'.calls # <<>>
        /\ last'.info.items = <<>> /\ last'.info.formats # <<>>) =>
        /\ DOMAIN user_state' = DOMAIN user_state \cup {last'.chat}
        /\ user_state'[last'.chat] = last'.info

C12_ChoiceUsesLater ==
    (ResolvedSelectable /\ last'.kind = "choice" /\ last'.chat = last.chat) =>
        /\ last'.info = last.info
        /\ NoLabelMatches(last.info, last'.choice) => Sends(last'.ops) = <<>>
        /\ \A i \in 1..Len(Sends(last'.ops)) :
              Sends(last'.ops)[i].media \in Locators(last.info)

\* C12: user_state holds at most one descriptor per conversation; a
\* resolution that returns a selectable descriptor replaces whatever entry
\* the conversation had, so of two such resolutions the later one's
\* descriptor is the entry, and the choice event that follows is matched
\* against that descriptor's formats only.
C12_LastWriteWins == [][C12_LaterWins /\ C12_ChoiceUsesLater]_vars

\* a selectable resolution in a conversation whose earlier descriptor no
\* choice had consumed: the entry is the later descriptor
C12_Witness ==
    /\ last.kind = "message" /\ last.had /\ ResolvedSelectable
    /\ Len(last.info.formats) = 2
    /\ user_state[last.chat] = last.info

\* the calls lines 161-176 make for the items and caption of a descriptor
DirectCalls(chat, info) ==
    <<IF Len(info.items) > 1
      THEN send_media_group(chat,
               [i \in 1..Len(info.items) |->
                   [type  |-> IF EndsWith(info.items[i], ".mp4") THEN "video" ELSE "photo",
                    media |-> info.items[i]]])
      ELSE IF EndsWith(info.items[1], ".mp4")
           THEN send_video(chat, info.items[1])
           ELSE send_photo(chat, info.items[1])>>
    \o (IF info.caption # "" THEN <<send_message(chat, info.caption)>> ELSE <<>>)

\* a resolution returned a descriptor whose items are all locators
ResolvedDirect ==
    /\ last.kind = "message" /\ last.exc = "none"
    /\ last.info.items # <<>>
    /\ \A i \in 1..Len(last.info.items) : last.info.items[i] # None

\* C13: a descriptor with more than one item is sent as one grouped album of
\* all items in order, each a video iff its locator ends in '.mp4' and a
\* photo otherwise; a descriptor with one item as one send_video or
\* send_photo by the same rule; the caption, if set, is one text message after
\* the media, never before it.
C13_DirectDelivery ==
    ResolvedDirect =>
        /\ Len(last.ops) >= 1
        /\ last.ops = SubSeq(DirectCalls(last.chat, last.info), 1, Len(last.ops))
        /\ last.raised = "none" => last.ops = DirectCalls(last.chat, last.info)

C13_Witness ==
    /\ ResolvedDirect /\ last.raised = "none"
    /\ Len(last.info.items) = 2
    /\ Len(last.ops) = 2
    /\ last.ops[1].op = "send_media_group"
    /\ last.ops[1].group[1].type = "photo"
    /\ last.ops[1].group[2].type = "video"
    /\ last.ops[2].op = "send_message"

\* C14: a resolution that returns a descriptor with items leaves user_state,
\* for the sending conversation and every other, as it was.
C14_DirectStoresNothing ==
    [][ (last'.kind = "message" /\ last'.exc = "none" /\ last'.info.items # <<>>)
            => user_state' = user_state ]_vars

C14_Witness ==
    /\ last.kind = "message" /\ last.exc = "none" /\ last.raised = "none"
    /\ Len(last.info.items) = 2
    /\ last.had
    /\ user_state[last.chat].items = <<>>

\* a resolution ended in the else branch or an except branch of lines 145-158
ResolutionFailed(e) ==
    e.kind = "message" /\ (Route(e.url) = "none" \/ e.exc # "none")

C19_Unchanged == ResolutionFailed(last') => user_state' = user_state

C19_PendingStillServed ==
    (ResolutionFailed(last) /\ last'.kind = "choice" /\ last'.chat = last.chat
        /\ last.chat \in DOMAIN user_state /\ last'.raised = "none"
        /\ ~NoLabelMatches(user_state[last.chat], last'.choice)) =>
        /\ Len(Sends(last'.ops)) = 1
        /\ Sends(last'.ops)[1].media \in Locators(user_state[last.chat])
        /\ last.chat \notin DOMAIN user_state'

\* C19: a resolution that fails (unsupported link, login required, any other
\* extraction error) leaves user_state as it was for every conversation: a
\* descriptor pending in the same conversation stays, and a choice of one of
\* its labels after the failure is delivered and then cleared.
C19_FailureKeepsState == [][C19_Unchanged /\ C19_PendingStillServed]_vars

C19_Witness ==
    /\ ResolutionFailed(last) /\ last.exc # "none" /\ last.had
    /\ last.chat \in DOMAIN user_state
    /\ user_state[last.chat].formats # <<>>

\* the first format of info carrying the label (0: none)
FirstWith(info, label) ==
    IF NoLabelMatches(info, label) THEN 0
    ELSE CHOOSE i \in 1..Len(info.formats) :
            /\ info.formats[i].label = label
            /\ \A j \in 1..(i - 1) : info.formats[j].label # label

\* the one media call a choice of formats[i] is to make
ChosenSend(chat, f) ==
    [Op(IF EndsWith(f.url, ".mp3") \/ Lower(f.label.note) = "audio"
        THEN "send_audio" ELSE "send_video", chat)
     EXCEPT !.media = f.url]

\* C15: a choice event whose label is carried by one or more formats of the
\* stored descriptor makes exactly one media call, with the locator of the
\* first such format in formats order; the call is send_audio iff the locator
\* ends in '.mp3' or the label contains 'audio' in any case, send_video
\* otherwise.
C15_FirstMatchWins ==
    (last.kind = "choice" /\ last.had /\ ~NoLabelMatches(last.info, last.choice)) =>
        LET f == last.info.formats[FirstWith(last.info, last.choice)]
        IN  /\ Len(Sends(last.ops)) <= 1
            /\ last.raised = "none" => Len(Sends(last.ops)) = 1
            /\ \A i \in 1..Len(Sends(last.ops)) :
                  Sends(last.ops)[i] = ChosenSend(last.chat, f)

\* two formats carry the chosen label and the first one's locator was sent
C15_Witness ==
    /\ last.kind = "choice" /\ last.had /\ last.raised = "none"
    /\ Len(last.info.formats) = 2
    /\ last.info.formats[1].label = last.choice
    /\ last.info.formats[2].label = last.choice
    /\ last.info.formats[1].url # last.info.formats[2].url
    /\ Len(Sends(last.ops)) = 1
    /\ Sends(last.ops)[1].media = last.info.formats[1].url

\* the formats the claim describes for a list of renditions: one per
\* rendition with a codec tag and a locator, in order, the size segment
\* present exactly when filesize or filesize_approx is known
RECURSIVE ClaimedFormats(_)
ClaimedFormats(fs) ==
    IF fs = <<>> THEN <<>>
    ELSE LET f    == Head(fs)
             size == IF f.filesize # 0 THEN f.filesize ELSE f.filesize_approx
             note == IF f.format_note # "" THEN f.format_note ELSE f.height
         IN  (IF f.vcodec # "" /\ f.url # None
              THEN <<[label |-> [note |-> note,
                                 seg  |-> IF size # 0 THEN <<MbTenths(size)>> ELSE <<>>],
                      url   |-> f.url]>>
              ELSE <<>>) \o ClaimedFormats(Tail(fs))

\* C16: the formats extract_video_formats builds are, in the order yt_dlp
\* reported them, one entry per rendition with a video codec tag and a
\* locator, whose label has a size segment exactly when filesize or
\* filesize_approx is known, the segment being size / 1048576 rounded to one
\* decimal (1,572,864 bytes: 1.5), and has none when the size is unknown.
C16_LabelSizes ==
    (last.kind = "message" /\ last.url = LabelUrl /\ last.exc = "none") =>
        last.info.formats = ClaimedFormats(last.seen)

====
